---- MODULE Spec2Model ----
(***************************************************************************)
(* Model of the AUD->VND exchange-rate notification bot                    *)
(* (mb_exchange_bot.py, the structured-API variant, and                    *)
(* mb_exchange_bot_webgia.py, the markup-scrape variant).                  *)
(*                                                                         *)
(* The two variants share the subscriber store, the command handlers and   *)
(* the daily broadcast verbatim; they differ only in scrape_aud_rate.      *)
(***************************************************************************)
EXTENDS Integers, Sequences, FiniteSets, TLC

\* Number of distinct Telegram user ids that talk to the bot.
MaxUsers == 3

Users == 1..MaxUsers

VARIABLES
    phase,            \* main(): "boot" | "loaded" | "serving" | "crashed"
    subscribed_users, \* the global set subscribed_users
    file,             \* subscribers.json: [exists, text]
    disk,             \* environment: "healthy" | "faulty" (file I/O may raise
                      \* OSError) | "read_only" (every open for writing raises)
    lastSaved,        \* history: the set the last completed save wrote
    applied,          \* history: the loaded set with the commands handled so
                      \* far applied to it one after the other
    handler,          \* the command handler in flight (suspended at its reply),
                      \* or the idle dispatcher with the last line it logged
    bpc,              \* send_daily_rate: "idle" | "fetch" | "send" | "sleep" | "done"
    snap,             \* the set the delivery loop iterates (subscribed_users.copy())
    cur,              \* user_id of the send in flight (0: none)
    sent,             \* recipients whose send_message returned normally
    faulted,          \* recipients whose send_message raised
    success_count,    \* local counter of send_daily_rate
    failed_count,     \* local counter of send_daily_rate
    message,          \* the text the broadcast carries: [kind, body]
    fetches,          \* scrape_aud_rate calls this run of send_daily_rate made
    blog,             \* last logger line of send_daily_rate
    request,          \* the upstream response a lone scrape_aud_rate call meets
    fpc,              \* that call: "ready" | "returned" | "raised"
    result,           \* the dict it returned
    requests          \* network requests it issued

storeVars == <<phase, subscribed_users, file, disk, lastSaved, applied>>
jobVars   == <<bpc, snap, cur, sent, faulted, success_count, failed_count, message,
               fetches, blog>>
fetchVars == <<request, fpc, result, requests>>
vars      == <<phase, subscribed_users, file, disk, lastSaved, applied, handler,
               bpc, snap, cur, sent, faulted, success_count, failed_count, message,
               fetches, blog, request, fpc, result, requests>>

(***************************************************************************)
(* subscribers.json as text.  The text is a sequence of JSON tokens; an    *)
(* integer is one token, its decimal spelling.                             *)
(***************************************************************************)
Range(s) == {s[i] : i \in 1..Len(s)}

\* list(subscribed_users): every member once, in the iteration order of the
\* set, which Python leaves unspecified: any order.
ListOrders(S) ==
    {l \in [1..Cardinality(S) -> S] : \A i, j \in 1..Cardinality(S) : l[i] = l[j] => i = j}

\* json.dump(list, f): "[", the items separated by ", ", "]".
RECURSIVE DumpItems(_)
DumpItems(l) ==
    IF l = <<>> THEN <<>>
    ELSE IF Len(l) = 1 THEN <<ToString(l[1])>>
    ELSE <<ToString(l[1]), ",">> \o DumpItems(Tail(l))

JsonDump(l) == <<"[">> \o DumpItems(l) \o <<"]">>

\* The integers json.load can meet in this model.
IsIntToken(t) == \E u \in Users : ToString(u) = t

IntOf(t) == CHOOSE u \in Users : ToString(u) = t

\* Variant: the last item of the array is lost on reading.
JsonLoadShort(text) ==
    [ok |-> Len(text) >= 2 /\ text[1] = "[" /\ text[Len(text)] = "]",
     list |-> [k \in 1..(((Len(text) - 1) \div 2) - 1) |-> CHOOSE u \in Users : ToString(u) = text[2 * k]]]

\* json.load(f) on an array of integers: [ok |-> parsed?, list |-> the items].
\* Items sit at the even positions between the brackets, commas at the odd ones.
JsonLoad(text) ==
    LET n == Len(text)
        wellFormed ==
            /\ n >= 2
            /\ text[1] = "["
            /\ text[n] = "]"
            /\ \/ n = 2
               \/ /\ n % 2 = 1
                  /\ \A i \in 2..(n - 1) :
                        IF i % 2 = 0 THEN IsIntToken(text[i]) ELSE text[i] = ","
    IN  IF wellFormed
        THEN [ok |-> TRUE,
              list |-> [k \in 1..((n - 1) \div 2) |-> IntOf(text[2 * k])]]
        ELSE [ok |-> FALSE, list |-> <<>>]

StrictPrefixes(s) == {SubSeq(s, 1, k) : k \in 0..(Len(s) - 1)}

NoFile == [exists |-> FALSE, text |-> <<>>]

FileWith(text) == [exists |-> TRUE, text |-> text]

\* What subscribers.json may hold when the process starts: nothing, an array
\* written by an earlier run (in any order), an array with a repeated id, or
\* text that is not a JSON document (an empty file, a truncated array, stray
\* text).
InitialFiles ==
    {NoFile}
    \cup {FileWith(JsonDump(l)) : l \in UNION {ListOrders(S) : S \in SUBSET Users}}
    \cup {FileWith(<<"[", "1", ",", "1", "]">>)}
    \cup {FileWith(<<>>), FileWith(<<"[", "1", ",">>), FileWith(<<"]", "[">>)}

(***************************************************************************)
(* load_subscribers / save_subscribers                                     *)
(***************************************************************************)
\* How the open()/read of load_subscribers can end on this disk.
ReadOutcomes == IF disk = "faulty" THEN {"ok", "oserror"} ELSE {"ok"}

\* How the open()/write of save_subscribers can end on this disk: the open
\* raises (file untouched), or open truncated the file and the write or the
\* closing flush raises part-way.
WriteOutcomes ==
    CASE disk = "healthy"   -> {"ok"}
      [] disk = "faulty"    -> {"ok", "open_fails", "write_fails"}
      [] disk = "read_only" -> {"open_fails"}

\* The try body of load_subscribers: the exists() test, open, json.load and
\* set().  raised: an exception leaves the body before the assignment.
LoadTry(current, f, io) ==
    IF ~f.exists THEN [raised |-> FALSE, set |-> current]
    ELSE IF io # "ok" THEN [raised |-> TRUE, set |-> current]
    ELSE LET doc == JsonLoad(f.text)
         IN  IF doc.ok THEN [raised |-> FALSE, set |-> Range(doc.list)]
             ELSE [raised |-> TRUE, set |-> current]

\* Variant: load_subscribers without its except clause.
LoadExceptMissing(current) == [raised |-> TRUE, set |-> current]

\* The except clause of load_subscribers: log, and the set is emptied.
LoadExcept(current) == [raised |-> FALSE, set |-> {}]

\* load_subscribers() as a whole.
LoadEnds(current, f, io) ==
    LET body == LoadTry(current, f, io)
    IN  IF body.raised THEN LoadExcept(current) ELSE body

\* Variant: the mutation is not followed by a write.
SavedFilesSkipped(f, S, io) == {f}

\* The possible contents of the file after the try body of save_subscribers.
SavedFiles(f, S, io) ==
    LET texts == {JsonDump(l) : l \in ListOrders(S)}
    IN  CASE io = "ok"          -> {FileWith(text) : text \in texts}
          [] io = "open_fails"  -> {f}
          [] io = "write_fails" -> {FileWith(p) : p \in UNION {StrictPrefixes(text) : text \in texts}}

\* Variant: save_subscribers without its except clause.
SaveEndsUncaught(io) ==
    [log |-> IF io = "ok" THEN "saved" ELSE "none", raised |-> io # "ok"]

\* How save_subscribers() ends: its last logger line, and whether an
\* exception leaves it (the except clause absorbs every Exception).
SaveEnds(io) ==
    [log |-> IF io = "ok" THEN "saved" ELSE "save_error", raised |-> FALSE]

\* main() calls load_subscribers() first.
load_subscribers ==
    /\ phase = "boot"
    /\ \E io \in ReadOutcomes :
          LET r == LoadEnds(subscribed_users, file, io)
          IN  /\ subscribed_users' = r.set
              /\ applied' = r.set
              /\ phase' = IF r.raised THEN "crashed" ELSE "loaded"
    /\ UNCHANGED <<file, disk, lastSaved, handler>>
    /\ UNCHANGED jobVars
    /\ UNCHANGED fetchVars

\* main() builds the application, registers the handlers and the daily job
\* and enters run_polling.
run_polling ==
    /\ phase = "loaded"
    /\ phase' = "serving"
    /\ UNCHANGED <<subscribed_users, file, disk, lastSaved, applied, handler>>
    /\ UNCHANGED jobVars
    /\ UNCHANGED fetchVars

(***************************************************************************)
(* scrape_aud_rate.  Text is a sequence of one-character strings.          *)
(***************************************************************************)
\* Bounds of the markup pages offered to the markup-scrape variant.
MaxRows == 2

Digits == {"0", "1", "2", "3", "4", "5", "6", "7", "8", "9"}

\* str.upper() on the letters that occur in the pages of this model.
UpperChar(c) ==
    CASE c = "a" -> "A" [] c = "u" -> "U" [] c = "d" -> "D" [] c = "s" -> "S"
      [] c = "w" -> "W" [] c = "e" -> "E" [] c = "b" -> "B" [] c = "g" -> "G"
      [] c = "i" -> "I" [] c = "c" -> "C" [] c = "o" -> "O" [] c = "m" -> "M"
      [] OTHER -> c

Upper(s) == [i \in 1..Len(s) |-> UpperChar(s[i])]

\* get_text(strip=True): leading and trailing white space removed.
RECURSIVE StripLeft(_)
StripLeft(s) == IF s # <<>> /\ Head(s) = " " THEN StripLeft(Tail(s)) ELSE s

RECURSIVE StripRight(_)
StripRight(s) ==
    IF s # <<>> /\ s[Len(s)] = " " THEN StripRight(SubSeq(s, 1, Len(s) - 1)) ELSE s

Strip(s) == StripRight(StripLeft(s))

\* sub in s
Contains(s, sub) ==
    \E i \in 0..(Len(s) - Len(sub)) : SubSeq(s, i + 1, i + Len(sub)) = sub

\* Variant: the pattern [^\d.], the comma is stripped too.
KeptDigitsAndDot(c) == c \in {"0", "1", "2", "3", "4", "5", "6", "7", "8", "9"} \/ c = "."

\* The characters re.sub(r'[^\d,.]', '', text) keeps.
KeptByClean(c) == c \in Digits \/ c = "," \/ c = "."

CleanRate(text) == SelectSeq(text, KeptByClean)

AUD == <<"A", "U", "D">>

Artifact == <<"w", "e", "b", "g", "i", "a", ".", "c", "o", "m">>

\* The test on the cleaned cell: `if selling_rate and selling_rate != 'webgia.com'`.
ValidRate(cleaned) == cleaned # <<>> /\ cleaned # Artifact

\* Result dicts.  error is the message as its literal part and its
\* interpolated part; raised marks an exception leaving scrape_aud_rate.
Success(rate) == [success |-> TRUE, rate |-> rate, error |-> <<"", "">>, raised |-> FALSE]

Failure(literal, detail) ==
    [success |-> FALSE, rate |-> <<>>, error |-> <<literal, detail>>, raised |-> FALSE]

Raised == [success |-> FALSE, rate |-> <<>>, error |-> <<"", "">>, raised |-> TRUE]

NotFound ==
    Failure("AUD rate not found in the table. The website might have changed its structure.", "")

\* Variant: the currency test is dropped, any row of 6 cells is taken.
IsAnyRow(cells) == Len(cells) >= 6

\* A row the loop looks into: at least 6 td cells, and 'AUD' in the
\* upper-cased, stripped text of the first.
IsAudRow(cells) == Len(cells) >= 6 /\ Contains(Upper(Strip(cells[1])), AUD)

\* Variant: the first AUD row decides; when its cell 5 is not a valid rate
\* the search ends with the failure.
RECURSIVE ScanRowsStopAtFirstAud(_, _)
ScanRowsStopAtFirstAud(rows, i) ==
    IF i > Len(rows) THEN NotFound
    ELSE IF IsAudRow(rows[i])
    THEN IF ValidRate(CleanRate(Strip(rows[i][6])))
         THEN Success(CleanRate(Strip(rows[i][6])))
         ELSE NotFound
    ELSE ScanRowsStopAtFirstAud(rows, i + 1)

\* The row loop of the markup-scrape variant over rows[i..]: the first AUD
\* row whose cleaned cell 5 is a valid rate ends the search; a row that fails
\* a test is passed over.
RECURSIVE ScanRows(_, _)
ScanRows(rows, i) ==
    IF i > Len(rows) THEN NotFound
    ELSE IF IsAudRow(rows[i]) /\ ValidRate(CleanRate(Strip(rows[i][6])))
    THEN Success(CleanRate(Strip(rows[i][6])))
    ELSE ScanRows(rows, i + 1)

\* Body of the `if response.status == 200` branch, markup-scrape variant:
\* soup.find('table') is the first table of the page.
ScrapePage(tables) ==
    IF tables = <<>>
    THEN Failure("Exchange rate table not found on page", "")
    ELSE ScanRows(tables[1], 1)

\* f"{vnd_rate:,.2f}" for a number given in hundredths (an int, or a float
\* with at most two decimals): sign, integer part in groups of three, two
\* decimals.
DigitChar(d) ==
    CASE d = 0 -> "0" [] d = 1 -> "1" [] d = 2 -> "2" [] d = 3 -> "3" [] d = 4 -> "4"
      [] d = 5 -> "5" [] d = 6 -> "6" [] d = 7 -> "7" [] d = 8 -> "8" [] d = 9 -> "9"

RECURSIVE GroupThousands(_)
GroupThousands(n) ==
    IF n < 1000
    THEN IF n < 10 THEN <<DigitChar(n)>>
         ELSE IF n < 100 THEN <<DigitChar(n \div 10), DigitChar(n % 10)>>
         ELSE <<DigitChar(n \div 100), DigitChar((n \div 10) % 10), DigitChar(n % 10)>>
    ELSE GroupThousands(n \div 1000)
         \o <<",", DigitChar((n \div 100) % 10), DigitChar((n \div 10) % 10), DigitChar(n % 10)>>

FormatUnsigned(cents) ==
    GroupThousands(cents \div 100)
    \o <<".", DigitChar((cents \div 10) % 10), DigitChar(cents % 10)>>

FormatRate(cents) ==
    IF cents < 0 THEN <<"-">> \o FormatUnsigned(0 - cents) ELSE FormatUnsigned(cents)

\* `if vnd_rate:` on the VND entry [type, cents]: None, 0 and '' are falsy.
Truthy(v) == (v.type = "number" /\ v.cents # 0) \/ v.type = "string"

\* Variant: data['rates'], without the default: a missing key raises.
RatesOfNoDefault(doc) == IF doc.rates = "absent" THEN "raise" ELSE doc.rates

\* data.get('rates', {}): the value of the key, an empty mapping when the key
\* is absent.
RatesOf(doc) == IF doc.rates = "absent" THEN "no_vnd" ELSE doc.rates

\* Body of the `if response.status == 200` branch, structured-API variant.
\* doc describes the JSON document: shape ("object", "array", "invalid"),
\* result, error_type, rates ("absent", "null", "no_vnd", "vnd") and the VND
\* entry vnd = [type, cents] with type "null", "number", "string" or
\* "empty_string".  raise: an exception leaves the body (data.get on a
\* non-dict, rates.get on a value that is no mapping, the format spec applied
\* to a str).
ScrapeApi(doc) ==
    IF doc.shape # "object" THEN [raise |-> TRUE, value |-> Raised]
    ELSE IF doc.result # "success"
    THEN [raise |-> FALSE, value |-> Failure("API error: ", doc.error_type)]
    ELSE IF RatesOf(doc) \notin {"no_vnd", "vnd"} THEN [raise |-> TRUE, value |-> Raised]
    ELSE IF RatesOf(doc) # "vnd" \/ ~Truthy(doc.vnd)
    THEN [raise |-> FALSE, value |-> Failure("VND rate not found in API response", "")]
    ELSE IF doc.vnd.type # "number" THEN [raise |-> TRUE, value |-> Raised]
    ELSE [raise |-> FALSE, value |-> Success(FormatRate(doc.vnd.cents))]

\* The try body of scrape_aud_rate: what it returns, or which exception
\* leaves it ("timeout": asyncio.TimeoutError, "other": any other Exception).
TryBody(req) ==
    IF req.net = "timeout" THEN [exc |-> "timeout", value |-> Raised]
    ELSE IF req.net = "error" THEN [exc |-> "other", value |-> Raised]
    ELSE IF req.status # 200
    THEN [exc |-> "none",
          value |-> Failure(IF req.variant = "api"
                            THEN "Failed to fetch rate. HTTP Status: "
                            ELSE "Failed to fetch page. HTTP Status: ",
                            ToString(req.status))]
    ELSE IF req.variant = "api"
    THEN LET r == ScrapeApi(req.doc)
         IN  [exc |-> IF r.raise THEN "other" ELSE "none", value |-> r.value]
    ELSE [exc |-> "none", value |-> ScrapePage(req.tables)]

\* Variant: only asyncio.TimeoutError is caught.
ExceptTimeoutOnly(exc, detail) ==
    IF exc = "timeout"
    THEN [success |-> FALSE, rate |-> <<>>,
          error |-> <<"Request timeout. Please try again later.", "">>, raised |-> FALSE]
    ELSE [success |-> FALSE, rate |-> <<>>, error |-> <<"", "">>, raised |-> TRUE]

\* The two except clauses of scrape_aud_rate.
ExceptClauses(exc, detail) ==
    CASE exc = "timeout" -> Failure("Request timeout. Please try again later.", "")
      [] exc = "other"   -> Failure("Error: ", detail)

scrape_aud_rate(req) ==
    LET body == TryBody(req)
    IN  IF body.exc = "none" THEN body.value ELSE ExceptClauses(body.exc, req.detail)

\* Network requests one call of scrape_aud_rate issues: the single session.get.
RequestsIssued(req) == 1

(***************************************************************************)
(* The upstream responses offered to scrape_aud_rate.                      *)
(***************************************************************************)
Txt_aud      == <<"a", "u", "d">>
Txt_AUD_sp   == <<" ", "A", "U", "D", " ">>
Txt_USD      == <<"U", "S", "D">>
Txt_name     == <<"A", "u", "s", "t", "r", "a", "l", "i", "a", "n", " ",
                  "D", "o", "l", "l", "a", "r">>
Txt_X        == <<"X">>
Txt_rate     == <<"1", "6", ",", "5", "0", "0", ".", "5", "0">>
Txt_rate_vnd == <<" ", "1", "6", ",", "5", "0", "0", ".", "5", "0", " ", "V", "N", "D">>
Txt_dash     == <<"-">>

FirstCells == {AUD, Txt_aud, Txt_AUD_sp, Txt_USD}

RateCells == {Txt_rate, Txt_rate_vnd, Artifact, Txt_dash}

\* A full row has 7 td cells (code, name, three rates, cell 5, a trailing
\* cell); a short row has 5.
FullRow(c0, c5) == <<c0, Txt_name, Txt_X, Txt_X, Txt_X, c5, Txt_X>>

ShortRow(c0) == <<c0, Txt_name, Txt_X, Txt_X, Txt_X>>

\* A header row holds th cells only: find_all('td') is empty.
HeaderRow == <<>>

Rows == {FullRow(c0, c5) : c0 \in FirstCells, c5 \in RateCells}
        \cup {ShortRow(c0) : c0 \in {AUD, Txt_USD}}
        \cup {HeaderRow}

RowLists == UNION {[1..n -> Rows] : n \in 0..MaxRows}

\* A page has no table, one table, or a first table followed by another one
\* that holds an AUD row.
Pages == {<<>>}
         \cup {<<t>> : t \in RowLists}
         \cup {<<t, <<FullRow(AUD, Txt_rate)>>>> : t \in RowLists}

NoDoc == [shape |-> "invalid", result |-> "absent", error_type |-> "",
          rates |-> "absent", vnd |-> [type |-> "null", cents |-> 0]]

VndEntries == {[type |-> "null", cents |-> 0], [type |-> "string", cents |-> 0],
               [type |-> "empty_string", cents |-> 0]}
              \cup {[type |-> "number", cents |-> c] :
                        c \in {0, 5, 99, 1650050, 2543210, 100000000, 0 - 1650050}}

Docs == {NoDoc}
        \cup {[NoDoc EXCEPT !.shape = "array"]}
        \cup {[shape |-> "object", result |-> r, error_type |-> e,
               rates |-> "absent", vnd |-> [type |-> "null", cents |-> 0]] :
                  r \in {"error", "absent"}, e \in {"Unknown error", "unsupported-code", ""}}
        \cup {[shape |-> "object", result |-> "success", error_type |-> "",
               rates |-> k, vnd |-> [type |-> "null", cents |-> 0]] :
                  k \in {"absent", "null", "no_vnd"}}
        \cup {[shape |-> "object", result |-> "success", error_type |-> "",
               rates |-> "vnd", vnd |-> v] : v \in VndEntries}

Request(variant, net, status, detail, doc, tables) ==
    [variant |-> variant, net |-> net, status |-> status, detail |-> detail,
     doc |-> doc, tables |-> tables]

\* str(e) of the exception a malformed JSON document raises in the body.
BodyError == "'list' object has no attribute 'get'"

\* str(e) of a transport exception may be empty.
Upstream ==
    {Request(v, n, 0, d, NoDoc, <<>>) :
        v \in {"api", "webgia"}, n \in {"timeout", "error"}, d \in {"", "Connection reset"}}
    \cup {Request(v, "ok", s, "", NoDoc, <<>>) : v \in {"api", "webgia"}, s \in {404, 500}}
    \cup {Request("api", "ok", 200, BodyError, doc, <<>>) : doc \in Docs}
    \cup {Request("webgia", "ok", 200, "", NoDoc, p) : p \in Pages}

\* Every result scrape_aud_rate can hand to its caller.
ScrapeResults == {scrape_aud_rate(req) : req \in Upstream}

\* The upstream responses the fetch of the running bot meets (in the daily
\* job and in rate_command), in either variant: a rate, or a timeout.
JobUpstream ==
    {Request("api", "ok", 200, BodyError,
             [shape |-> "object", result |-> "success", error_type |-> "",
              rates |-> "vnd", vnd |-> [type |-> "number", cents |-> 1650050]], <<>>),
     Request("webgia", "ok", 200, "", NoDoc, <<<<FullRow(AUD, Txt_rate)>>>>),
     Request("api", "timeout", 0, "", NoDoc, <<>>),
     Request("webgia", "timeout", 0, "", NoDoc, <<>>)}

JobResults == {scrape_aud_rate(req) : req \in JobUpstream}

(***************************************************************************)
(* Command handlers.  The dispatcher runs one handler at a time; a handler *)
(* runs without suspension up to its reply_text await.                     *)
(***************************************************************************)
Idle == [cmd |-> "idle", user |-> 0, reply |-> "none", log |-> "none"]

\* The dispatcher after error_handler logged the exception of a handler.
IdleAfterError == [cmd |-> "idle", user |-> 0, reply |-> "none", log |-> "error"]

\* No save_subscribers() has completed yet.
NeverSaved == [done |-> FALSE, set |-> {}]

\* The handler now suspended at its reply (reply "raised": an exception left
\* the handler before it replied).
InFlight(cmd, u, reply, saved) ==
    [cmd |-> cmd, user |-> u,
     reply |-> IF saved.raised THEN "raised" ELSE reply, log |-> saved.log]

NoSave == [log |-> "none", raised |-> FALSE]

\* What a command does to a set when the commands run one at a time.
Sequentially(cmd, u, S) == IF cmd = "subscribe" THEN S \cup {u} ELSE S \ {u}

\* The in-memory mutation followed by save_subscribers().
MutateAndSave(cmd, u, reply, S) ==
    \E io \in WriteOutcomes :
        /\ subscribed_users' = S
        /\ applied' = Sequentially(cmd, u, applied)
        /\ file' \in SavedFiles(file, S, io)
        /\ lastSaved' = IF io = "ok" THEN [done |-> TRUE, set |-> S] ELSE lastSaved
        /\ handler' = InFlight(cmd, u, reply, SaveEnds(io))

\* Variant: subscribe_command adds and saves without the membership test.
SubscribeBranchAlways(u, S) == "subscribed"

\* The branch `if user_id in subscribed_users` of subscribe_command takes.
SubscribeBranch(u, S) == IF u \in S THEN "already" ELSE "subscribed"

\* Variant: the set is rebuilt from the new id alone, the others are lost.
AddReplaces(u, S) == {u}

\* subscribed_users.add(user_id)
Add(u, S) == S \cup {u}

\* subscribe_command up to its await: membership test, add, save.
subscribe_command(u) ==
    /\ phase = "serving"
    /\ handler.cmd = "idle"
    /\ IF SubscribeBranch(u, subscribed_users) = "already"
       THEN /\ handler' = InFlight("subscribe", u, "already", NoSave)
            /\ UNCHANGED <<subscribed_users, file, lastSaved, applied>>
       ELSE MutateAndSave("subscribe", u, "subscribed", Add(u, subscribed_users))
    /\ UNCHANGED <<phase, disk>>
    /\ UNCHANGED jobVars
    /\ UNCHANGED fetchVars

\* Variant: unsubscribe_command discards and saves without the membership test.
UnsubscribeBranchAlways(u, S) == "unsubscribed"

\* The branch `if user_id in subscribed_users` of unsubscribe_command takes.
UnsubscribeBranch(u, S) == IF u \in S THEN "unsubscribed" ELSE "not_subscribed"

\* subscribed_users.remove(user_id)
Remove(u, S) == S \ {u}

\* unsubscribe_command up to its await: membership test, remove, save.
unsubscribe_command(u) ==
    /\ phase = "serving"
    /\ handler.cmd = "idle"
    /\ IF UnsubscribeBranch(u, subscribed_users) = "unsubscribed"
       THEN MutateAndSave("unsubscribe", u, "unsubscribed", Remove(u, subscribed_users))
       ELSE /\ handler' = InFlight("unsubscribe", u, "not_subscribed", NoSave)
            /\ UNCHANGED <<subscribed_users, file, lastSaved, applied>>
    /\ UNCHANGED <<phase, disk>>
    /\ UNCHANGED jobVars
    /\ UNCHANGED fetchVars

\* start_command up to its await: the welcome text is sent.  It reads
\* nothing of the update but the chat to answer.
start_command ==
    /\ phase = "serving"
    /\ handler.cmd = "idle"
    /\ handler' = InFlight("start", 0, "welcome", NoSave)
    /\ UNCHANGED storeVars
    /\ UNCHANGED jobVars
    /\ UNCHANGED fetchVars

\* help_command up to its await: the help text is sent.
help_command ==
    /\ phase = "serving"
    /\ handler.cmd = "idle"
    /\ handler' = InFlight("help", 0, "help", NoSave)
    /\ UNCHANGED storeVars
    /\ UNCHANGED jobVars
    /\ UNCHANGED fetchVars

\* rate_command up to its first await: the "Fetching..." notice is sent.
rate_command ==
    /\ phase = "serving"
    /\ handler.cmd = "idle"
    /\ handler' = InFlight("rate", 0, "fetching", NoSave)
    /\ UNCHANGED storeVars
    /\ UNCHANGED jobVars
    /\ UNCHANGED fetchVars

\* The notice of rate_command was delivered: scrape_aud_rate is called and
\* the handler is suspended at the fetch.
RateFetch ==
    /\ phase = "serving"
    /\ handler.cmd = "rate"
    /\ handler.reply = "fetching"
    /\ handler' = [handler EXCEPT !.reply = "scraping"]
    /\ UNCHANGED storeVars
    /\ UNCHANGED jobVars
    /\ UNCHANGED fetchVars

\* The text rate_command answers with: the rate, or the error notice.
RateReply(res) == IF res.success THEN "rate" ELSE "rate_error"

\* scrape_aud_rate returns to rate_command: the answer is built and sent.
RateFetched ==
    /\ phase = "serving"
    /\ handler.cmd = "rate"
    /\ handler.reply = "scraping"
    /\ \E res \in JobResults : handler' = [handler EXCEPT !.reply = RateReply(res)]
    /\ UNCHANGED storeVars
    /\ UNCHANGED jobVars
    /\ UNCHANGED fetchVars

\* The handler in flight is suspended at its last reply_text.
AtLastReply == handler.cmd # "idle" /\ handler.reply \notin {"fetching", "scraping"}

\* The handler in flight is suspended at a reply_text.
AtReply == handler.cmd # "idle" /\ handler.reply # "scraping"

\* The reply_text await of the handler in flight completes; the handler
\* ends and the dispatcher takes the next update.
ReplyDone ==
    /\ phase = "serving"
    /\ AtLastReply
    /\ handler' = Idle
    /\ UNCHANGED storeVars
    /\ UNCHANGED jobVars
    /\ UNCHANGED fetchVars

\* Variant: no error handler is registered and the exception leaves
\* run_polling: the process ends.
OnHandlerFaultExit == "exit"

\* What the dispatcher does with an exception that leaves a handler: it
\* calls the registered error_handler, which logs, and goes on ("log").
OnHandlerFault == "log"

\* The reply_text await of the handler in flight raises (the chat is gone,
\* the network fails); the exception leaves the handler.
ReplyFaults ==
    /\ phase = "serving"
    /\ AtReply
    /\ IF OnHandlerFault = "log"
       THEN handler' = IdleAfterError /\ phase' = phase
       ELSE handler' = Idle /\ phase' = "crashed"
    /\ UNCHANGED <<subscribed_users, file, disk, lastSaved, applied>>
    /\ UNCHANGED jobVars
    /\ UNCHANGED fetchVars

(***************************************************************************)
(* send_daily_rate, the job the scheduler runs once a day.  It suspends at *)
(* the fetch, at each send_message and at each asyncio.sleep.              *)
(***************************************************************************)
\* Variant: `for user_id in subscribed_users`, the live set is walked.
IterateLiveSet(live, copy) == live

\* The collection `for user_id in subscribed_users.copy()` walks, given the
\* live set now and the copy made when the loop began.
IterationSource(live, copy) == copy

\* The loop takes its next recipient, or ends and logs the tally.  visited is
\* the recipients already attempted.
LoopNext(visited) ==
    LET rest == IterationSource(subscribed_users, snap') \ visited
    IN  IF rest = {}
        THEN /\ bpc' = "done"
             /\ cur' = 0
             /\ blog' = "tally"
        ELSE /\ bpc' = "send"
             /\ cur' \in rest
             /\ blog' = blog

\* Variant: the copy is made when the job fires, before the fetch.
CopyAtTrigger == "trigger"

\* Where subscribed_users.copy() is evaluated: in the for statement, after
\* the fetch has returned ("loop").
CopyPoint == "loop"

\* Variant: the job has no empty-set exit.
EmptyExitNever(S) == FALSE

\* `if not subscribed_users`
EmptyExit(S) == S = {}

NoMessage == [kind |-> "none", body |-> <<>>]

\* The job fires: the empty-set exit (log and return), or the log line and
\* the call of scrape_aud_rate, which issues its request.
DailyTrigger ==
    /\ phase = "serving"
    /\ bpc \in {"idle", "done"}
    /\ snap' = IF CopyPoint = "trigger" THEN subscribed_users ELSE {}
    /\ cur' = 0
    /\ sent' = {}
    /\ faulted' = {}
    /\ success_count' = 0
    /\ failed_count' = 0
    /\ message' = NoMessage
    /\ IF EmptyExit(subscribed_users)
       THEN bpc' = "done" /\ blog' = "no_subscribers" /\ fetches' = 0
       ELSE bpc' = "fetch" /\ blog' = "sending" /\ fetches' = 1
    /\ UNCHANGED storeVars
    /\ UNCHANGED handler
    /\ UNCHANGED fetchVars

\* Variant: a failed fetch is reported without its reason.
MessageForMasked(res) ==
    IF res.success THEN [kind |-> "rate", body |-> <<res.rate>>]
    ELSE [kind |-> "error", body |-> <<"Something went wrong">>]

\* The message built from the fetch result: the update with the rate, or
\* the error notice with result['error'] (its literal and interpolated part).
MessageFor(res) ==
    IF res.success THEN [kind |-> "rate", body |-> <<res.rate>>]
    ELSE [kind |-> "error", body |-> res.error]

\* scrape_aud_rate returns; the message is built, the counters are zeroed,
\* the set is copied and the first send starts.
FetchDone ==
    /\ phase = "serving"
    /\ bpc = "fetch"
    /\ \E res \in JobResults : message' = MessageFor(res)
    /\ snap' = IF CopyPoint = "loop" THEN subscribed_users ELSE snap
    /\ success_count' = 0
    /\ failed_count' = 0
    /\ UNCHANGED <<sent, faulted, fetches>>
    /\ LoopNext({})
    /\ UNCHANGED storeVars
    /\ UNCHANGED handler
    /\ UNCHANGED fetchVars

\* send_message returns: count it and sleep.
SendReturns ==
    /\ phase = "serving"
    /\ bpc = "send"
    /\ sent' = sent \cup {cur}
    /\ success_count' = success_count + 1
    /\ bpc' = "sleep"
    /\ UNCHANGED <<snap, cur, faulted, failed_count, message, fetches, blog>>
    /\ UNCHANGED storeVars
    /\ UNCHANGED handler
    /\ UNCHANGED fetchVars

\* Variant: a recipient whose send raised is taken off the set.
SetAfterSendFaultDrops(u, S) == S \ {u}

\* The set after the except clause of the loop handled the fault of the send
\* to u: the clause logs and counts, it does not touch subscribed_users.
SetAfterSendFault(u, S) == S

\* Variant: no try/except around the send, the fault leaves the loop.
OnSendFaultAbort == "abort"

\* What the except clause of the loop does with a send fault: "continue"
\* with the next recipient.
OnSendFault == "continue"

\* send_message raises: the except clause logs and counts it, and the loop
\* goes on.
SendFaults ==
    /\ phase = "serving"
    /\ bpc = "send"
    /\ faulted' = faulted \cup {cur}
    /\ UNCHANGED <<snap, sent, success_count, message, fetches>>
    /\ IF OnSendFault = "continue"
       THEN /\ failed_count' = failed_count + 1
            /\ LoopNext(sent \cup faulted')
       ELSE /\ failed_count' = failed_count
            /\ bpc' = "done"
            /\ cur' = 0
            /\ blog' = "raised"
    /\ subscribed_users' = SetAfterSendFault(cur, subscribed_users)
    /\ UNCHANGED <<phase, file, disk, lastSaved, applied>>
    /\ UNCHANGED handler
    /\ UNCHANGED fetchVars

\* asyncio.sleep(0.1) returns: the loop goes on.
SleepDone ==
    /\ phase = "serving"
    /\ bpc = "sleep"
    /\ UNCHANGED <<snap, sent, faulted, success_count, failed_count, message, fetches>>
    /\ LoopNext(sent \cup faulted)
    /\ UNCHANGED storeVars
    /\ UNCHANGED handler
    /\ UNCHANGED fetchVars

(***************************************************************************)
(* Process lifecycle                                                       *)
(***************************************************************************)
\* The process stops and is started again: module import leaves the set
\* empty, nothing of the old process survives but the file.
Restart ==
    /\ phase = "serving"
    /\ phase' = "boot"
    /\ subscribed_users' = {}
    /\ applied' = {}
    /\ handler' = Idle
    /\ bpc' = "idle"
    /\ snap' = {}
    /\ cur' = 0
    /\ sent' = {}
    /\ faulted' = {}
    /\ success_count' = 0
    /\ failed_count' = 0
    /\ message' = NoMessage
    /\ fetches' = 0
    /\ blog' = "none"
    /\ UNCHANGED <<file, disk, lastSaved>>
    /\ UNCHANGED fetchVars

\* A lone call of scrape_aud_rate against the response in request.
Fetch ==
    /\ fpc = "ready"
    /\ result' = scrape_aud_rate(request)
    /\ fpc' = IF result'.raised THEN "raised" ELSE "returned"
    /\ requests' = requests + RequestsIssued(request)
    /\ UNCHANGED request
    /\ UNCHANGED storeVars
    /\ UNCHANGED handler
    /\ UNCHANGED jobVars

NoRequest == Request("api", "ok", 0, "", NoDoc, <<>>)

NoResult == [success |-> FALSE, rate |-> <<>>, error |-> <<"", "">>, raised |-> FALSE]

JobInit ==
    /\ bpc = "idle"
    /\ snap = {}
    /\ cur = 0
    /\ sent = {}
    /\ faulted = {}
    /\ success_count = 0
    /\ failed_count = 0
    /\ message = NoMessage
    /\ fetches = 0
    /\ blog = "none"

\* Module import done, main() about to call load_subscribers.
ProcessInit ==
    /\ phase = "boot"
    /\ subscribed_users = {}
    /\ file \in InitialFiles
    /\ lastSaved = NeverSaved
    /\ applied = {}
    /\ handler = Idle
    /\ JobInit

FetchIdle ==
    /\ request = NoRequest
    /\ fpc = "done"
    /\ result = NoResult
    /\ requests = 0

\* The bot on a healthy disk: commands, the daily job, restarts.
Init ==
    /\ ProcessInit
    /\ disk = "healthy"
    /\ FetchIdle

Next ==
    \/ load_subscribers
    \/ run_polling
    \/ \E u \in Users : subscribe_command(u)
    \/ \E u \in Users : unsubscribe_command(u)
    \/ ReplyDone
    \/ ReplyFaults
    \/ DailyTrigger
    \/ FetchDone
    \/ SendReturns
    \/ SendFaults
    \/ SleepDone
    \/ Restart

Spec == Init /\ [][Next]_vars

\* The subscriber store on a disk whose reads and writes may fail, before
\* the daily job fires.
InitStore ==
    /\ ProcessInit
    /\ disk = "faulty"
    /\ FetchIdle

NextStore ==
    \/ load_subscribers
    \/ run_polling
    \/ \E u \in Users : subscribe_command(u)
    \/ \E u \in Users : unsubscribe_command(u)
    \/ ReplyDone
    \/ ReplyFaults
    \/ Restart

SpecStore == InitStore /\ [][NextStore]_vars

\* The same commands and restarts on a healthy disk.
SpecCommands == Init /\ [][NextStore]_vars

\* Commands and the daily job on a disk that refuses every write (no
\* subscribers.json yet, none can be created): the set lives in memory only.
InitJob ==
    /\ ProcessInit
    /\ file = NoFile
    /\ disk = "read_only"
    /\ FetchIdle

NextJob ==
    \/ load_subscribers
    \/ run_polling
    \/ \E u \in Users : subscribe_command(u)
    \/ \E u \in Users : unsubscribe_command(u)
    \/ ReplyDone
    \/ ReplyFaults
    \/ DailyTrigger
    \/ FetchDone
    \/ SendReturns
    \/ SendFaults
    \/ SleepDone

SpecJob == InitJob /\ [][NextJob]_vars

\* A send_message in flight ends, one way or the other.
SendEnds == SendReturns \/ SendFaults

\* The awaits of send_daily_rate come back: the fetch is bounded by the
\* timeout of its request, every send_message returns or raises,
\* asyncio.sleep(0.1) returns.  Nothing is assumed of the commands or of the scheduler.
JobFairness ==
    /\ WF_vars(FetchDone)
    /\ WF_vars(SendEnds)
    /\ WF_vars(SleepDone)

SpecLive == InitJob /\ [][NextJob]_vars /\ JobFairness

\* subscribers.json as an earlier run left it, with two subscribers.
EarlierRunFile == FileWith(JsonDump(<<1, 2>>))

\* Every command and the daily job, started on the file of an earlier run
\* that the disk lets it read but not rewrite.
InitAll ==
    /\ ProcessInit
    /\ file = EarlierRunFile
    /\ disk = "read_only"
    /\ FetchIdle

NextAll ==
    \/ load_subscribers
    \/ run_polling
    \/ start_command
    \/ help_command
    \/ rate_command
    \/ RateFetch
    \/ RateFetched
    \/ \E u \in Users : subscribe_command(u)
    \/ \E u \in Users : unsubscribe_command(u)
    \/ ReplyDone
    \/ ReplyFaults
    \/ DailyTrigger
    \/ FetchDone
    \/ SendReturns
    \/ SendFaults
    \/ SleepDone

SpecAll == InitAll /\ [][NextAll]_vars

\* scrape_aud_rate alone, over every upstream response of the model.
InitFetch ==
    /\ ProcessInit
    /\ file = NoFile
    /\ disk = "healthy"
    /\ request \in Upstream
    /\ fpc = "ready"
    /\ result = NoResult
    /\ requests = 0

NextFetch == Fetch

SpecFetch == InitFetch /\ [][NextFetch]_vars

(***************************************************************************)
(* Properties                                                              *)
(***************************************************************************)
\* The file holds exactly the set S: it parses, and its items are the
\* members of S, each once.
FileHolds(f, S) ==
    /\ f.exists
    /\ LET doc == JsonLoad(f.text)
       IN  /\ doc.ok
           /\ Range(doc.list) = S
           /\ Len(doc.list) = Cardinality(S)

\* A step in which the dispatcher starts handler cmd.
Starts(cmd) == handler.cmd = "idle" /\ handler'.cmd = cmd

\* C1: the daily broadcast attempts every member of its snapshot once; a
\* send fault on one recipient is counted and the loop goes on to the others;
\* the counters equal the number of sends that returned and that faulted,
\* and the broadcast ends with the tally over the whole snapshot.
C1_BroadcastTally ==
    /\ success_count = Cardinality(sent)
    /\ failed_count = Cardinality(faulted)
    /\ sent \cap faulted = {}
    /\ (bpc = "done" /\ blog # "no_subscribers") =>
          /\ blog = "tally"
          /\ sent \cup faulted = snap
          /\ success_count + failed_count = Cardinality(snap)

\* One fault and two successes: succeeded 2, failed 1.
C1_Witness ==
    /\ bpc = "done"
    /\ blog = "tally"
    /\ Cardinality(sent) = 2
    /\ Cardinality(faulted) = 1
    /\ success_count = 2
    /\ failed_count = 1

\* C2: while the delivery loop is suspended at a send or at the delay,
\* subscribe and unsubscribe may change the live set; the loop still attempts
\* exactly the members of the copy taken when it started, none twice, and
\* the mutation raises nothing in the loop.
C2_SnapshotIteration ==
    /\ bpc = "send" => cur \in snap \ (sent \cup faulted)
    /\ bpc \in {"send", "sleep"} => sent \cup faulted \subseteq snap
    /\ (bpc = "done" /\ blog = "tally") => sent \cup faulted = snap
    /\ blog # "raised"
    /\ success_count + failed_count = Cardinality(sent \cup faulted)

\* Mid-loop, a member not yet attempted has unsubscribed and a user outside
\* the snapshot has subscribed.
C2_Witness ==
    /\ bpc = "sleep"
    /\ (snap \ (sent \cup faulted)) \ subscribed_users # {}
    /\ subscribed_users \ snap # {}

\* C3: a subscribe by a user not in the set replies "subscribed", adds the id
\* and rewrites the file with the new set; the id is still in the set when
\* that handler ends, so the same user's next subscribe replies "already",
\* calls no save and leaves the set and the file unchanged.
C3_Step ==
    /\ Starts("subscribe") =>
          LET u == handler'.user
          IN  IF u \in subscribed_users
              THEN /\ handler'.reply = "already"
                   /\ handler'.log = "none"
                   /\ UNCHANGED <<subscribed_users, file, lastSaved>>
              ELSE /\ handler'.reply = "subscribed"
                   /\ handler'.log = "saved"
                   /\ subscribed_users' = subscribed_users \cup {u}
                   /\ FileHolds(file', subscribed_users')
    /\ (handler.cmd = "subscribe" /\ handler'.cmd = "idle" /\ phase' = "serving") =>
          handler.user \in subscribed_users'

C3_SubscribeTwice == [][C3_Step]_vars

\* The second subscribe has replied "already"; the file holds the set with
\* the user in it.
C3_Witness ==
    /\ handler.cmd = "subscribe"
    /\ handler.reply = "already"
    /\ lastSaved.done
    /\ handler.user \in lastSaved.set
    /\ FileHolds(file, subscribed_users)

\* C4: an unsubscribe by a user not in the set replies "not_subscribed",
\* calls no save, and leaves the set and the file unchanged.
C4_Step ==
    (Starts("unsubscribe") /\ handler'.user \notin subscribed_users) =>
        /\ handler'.reply = "not_subscribed"
        /\ handler'.log = "none"
        /\ UNCHANGED <<subscribed_users, file, lastSaved>>

C4_UnsubscribeAbsent == [][C4_Step]_vars

C4_Witness ==
    /\ handler.cmd = "unsubscribe"
    /\ handler.reply = "not_subscribed"
    /\ subscribed_users # {}
    /\ file.exists

\* C5: with no write failing, every step of the serving process that changes
\* the in-memory set leaves the file holding exactly the new set.
C5_Step ==
    (phase = "serving" /\ phase' = "serving" /\ subscribed_users' # subscribed_users) =>
        FileHolds(file', subscribed_users')

C5_FileFollowsSet == [][C5_Step]_vars

\* An unsubscribe has shrunk the set to a non-empty one and the file holds it.
C5_Witness ==
    /\ handler.cmd = "unsubscribe"
    /\ handler.reply = "unsubscribed"
    /\ subscribed_users # {}
    /\ FileHolds(file, subscribed_users)

\* C6: a load_subscribers that follows a completed save (a restart in
\* between) returns and leaves in memory exactly the set that was saved.
C6_Step ==
    (phase = "boot" /\ phase' # "boot" /\ lastSaved.done) =>
        /\ phase' = "loaded"
        /\ subscribed_users' = lastSaved.set

C6_RoundTrip == [][C6_Step]_vars

\* A saved set of two or more ids has been read back after a restart.
C6_Witness ==
    /\ phase = "loaded"
    /\ lastSaved.done
    /\ Cardinality(lastSaved.set) >= 2
    /\ subscribed_users = lastSaved.set

\* C7: load_subscribers never lets an exception out; after it, the set is
\* either what the file parses to or empty, and it is empty when the file
\* exists but does not parse.
C7_LoadFailsOpen ==
    /\ phase # "crashed"
    /\ (phase = "loaded" /\ file.exists) =>
          LET doc == JsonLoad(file.text)
          IN  /\ ~doc.ok => subscribed_users = {}
              /\ subscribed_users = {} \/ (doc.ok /\ subscribed_users = Range(doc.list))

\* Startup went past the load of a file that exists and does not parse.
C7_Witness ==
    /\ phase = "loaded"
    /\ file.exists
    /\ ~JsonLoad(file.text).ok
    /\ subscribed_users = {}

\* C8: a subscribe or unsubscribe whose write fails still ends normally: the
\* in-memory change stands and the reply is the success reply; and every
\* state-changing command whose write succeeds leaves the file holding
\* exactly the in-memory set, whatever failed before.
C8_Step ==
    (Starts("subscribe") \/ Starts("unsubscribe")) =>
        LET u == handler'.user
        IN  /\ handler'.reply # "raised"
            /\ phase' = "serving"
            /\ handler'.log = "save_error" =>
                  IF handler'.cmd = "subscribe"
                  THEN /\ handler'.reply = "subscribed"
                       /\ u \notin subscribed_users
                       /\ subscribed_users' = subscribed_users \cup {u}
                  ELSE /\ handler'.reply = "unsubscribed"
                       /\ u \in subscribed_users
                       /\ subscribed_users' = subscribed_users \ {u}
            /\ handler'.log = "saved" => FileHolds(file', subscribed_users')

C8_WriteFaultAbsorbed == [][C8_Step]_vars

\* A subscribe whose write failed: success reply, id in memory, file behind.
C8_Witness ==
    /\ handler.cmd = "subscribe"
    /\ handler.reply = "subscribed"
    /\ handler.log = "save_error"
    /\ handler.user \in subscribed_users
    /\ ~FileHolds(file, subscribed_users)

\* The response is one of the failures scrape_aud_rate classifies.
UpstreamFailed(req) ==
    \/ req.net # "ok"
    \/ req.status # 200
    \/ req.variant = "webgia" /\ req.tables = <<>>
    \/ req.variant = "api" /\ (req.doc.shape # "object" \/ req.doc.result # "success"
                                 \/ req.doc.rates # "vnd")

\* C9: a call of scrape_aud_rate issues one request and returns a dict: on a
\* timeout, any other exception, a non-200 status or a structural mismatch
\* success is false and the error message is not empty; a success carries a
\* rate; no exception leaves the call.
C9_FetchAlwaysReturns ==
    /\ fpc # "raised"
    /\ fpc = "returned" =>
          /\ requests = 1
          /\ ~result.raised
          /\ UpstreamFailed(request) => ~result.success
          /\ IF result.success
             THEN result.rate # <<>>
             ELSE result.error[1] # "" \/ result.error[2] # ""

\* A transport exception whose str() is empty came back as a failure dict.
C9_Witness ==
    /\ fpc = "returned"
    /\ request.net = "error"
    /\ request.detail = ""
    /\ ~result.success
    /\ result.error = <<"Error: ", "">>

\* The row ["AUD","Australian Dollar","X","X","X","16,500.50","X"]
ExampleRow == FullRow(AUD, Txt_rate)

ExampleFetched ==
    /\ fpc = "returned"
    /\ request.variant = "webgia"
    /\ request.net = "ok"
    /\ request.status = 200
    /\ request.tables # <<>>
    /\ request.tables[1] # <<>>
    /\ request.tables[1][1] = ExampleRow

\* C10 as stated: for the example row the fetch returns the rate "16500.50".
C10_Original ==
    ExampleFetched =>
        /\ result.success
        /\ result.rate = <<"1", "6", "5", "0", "0", ".", "5", "0">>

\* C10: for the example row the fetch returns success with the text of cell
\* 5 as cleaned, "16,500.50": the cleaning keeps the comma.
C10_ExampleRow ==
    ExampleFetched =>
        /\ result.success
        /\ result.rate = <<"1", "6", ",", "5", "0", "0", ".", "5", "0">>

C10_Witness ==
    /\ ExampleFetched
    /\ Len(request.tables) = 1
    /\ Len(request.tables[1]) = 1
    /\ result.success

\* A call of the markup-scrape variant met status 200 and a page with a table.
PageFetched ==
    /\ fpc = "returned"
    /\ request.variant = "webgia"
    /\ request.net = "ok"
    /\ request.status = 200
    /\ request.tables # <<>>

\* The rows of the first table that have 6 cells and 'AUD' in the first.
AudRowsOf(rows) ==
    {i \in 1..Len(rows) : Len(rows[i]) >= 6 /\ Contains(Upper(Strip(rows[i][1])), AUD)}

\* C11: when the only AUD row of the table holds the artifact 'webgia.com'
\* in cell 5, the fetch returns success false.
C11_ArtifactRejected ==
    (/\ PageFetched
     /\ Cardinality(AudRowsOf(request.tables[1])) = 1
     /\ \A i \in AudRowsOf(request.tables[1]) : Strip(request.tables[1][i][6]) = Artifact)
        => ~result.success

IsDigit(c) == c \in Digits

DigitValue(c) == CHOOSE d \in 0..9 : DigitChar(d) = c

\* The number a string of digits spells.
RECURSIVE DigitsValue(_)
DigitsValue(s) ==
    IF s = <<>> THEN 0
    ELSE 10 * DigitsValue(SubSeq(s, 1, Len(s) - 1)) + DigitValue(s[Len(s)])

Unsigned(s) == IF s # <<>> /\ s[1] = "-" THEN Tail(s) ELSE s

\* s is a number written with a dot and exactly two decimals, its integer
\* part in comma-separated groups of three counted from the right.
TwoDecimalsGrouped(s) ==
    LET body == Unsigned(s)
        n == Len(body)
    IN  /\ n >= 4
        /\ body[n - 2] = "."
        /\ body[n - 1] \in Digits
        /\ body[n] \in Digits
        /\ body[1] \in Digits
        /\ \A i \in 1..(n - 3) :
              IF (n - 3 - i) % 4 = 3 THEN body[i] = "," ELSE body[i] \in Digits

\* The value of such a string, in hundredths.
HundredthsOf(s) ==
    LET v == DigitsValue(SelectSeq(Unsigned(s), IsDigit))
    IN  IF s # <<>> /\ s[1] = "-" THEN 0 - v ELSE v

\* A call of the structured-API variant met status 200 and a JSON object
\* whose result is 'success'.
ApiSuccessFetched ==
    /\ fpc = "returned"
    /\ request.variant = "api"
    /\ request.net = "ok"
    /\ request.status = 200
    /\ request.doc.shape = "object"
    /\ request.doc.result = "success"

\* C12: for every numeric VND entry of a status-200 'success' response the
\* fetch returns success true and the rate is that value written with
\* thousands separators and exactly two decimals.
C12_NumericVndFormatted ==
    (ApiSuccessFetched /\ request.doc.rates = "vnd" /\ request.doc.vnd.type = "number") =>
        /\ result.success
        /\ TwoDecimalsGrouped(result.rate)
        /\ HundredthsOf(result.rate) = request.doc.vnd.cents

VndNotFound == <<"VND rate not found in API response", "">>

NoAudFirstCell(rows) ==
    \A i \in 1..Len(rows) :
        Len(rows[i]) >= 1 => ~Contains(Upper(Strip(rows[i][1])), AUD)

\* C16: for a status-200 page with a table in which no row's first cell
\* contains 'AUD' (case-insensitively), the fetch returns success false.
C16_NoAudRow ==
    (PageFetched /\ NoAudFirstCell(request.tables[1])) => ~result.success

\* The table holds a full row of another currency with a rate in cell 5,
\* and the fetch failed.
C16_Witness ==
    /\ PageFetched
    /\ NoAudFirstCell(request.tables[1])
    /\ \E i \in 1..Len(request.tables[1]) : request.tables[1][i] = FullRow(Txt_USD, Txt_rate)
    /\ ~result.success

\* cells is a row with at least 6 cells, 'AUD' in the first, and a digit, a
\* comma or a dot somewhere in cell 5.
Qualifies(cells) ==
    /\ Len(cells) >= 6
    /\ Contains(Upper(Strip(cells[1])), AUD)
    /\ \E j \in 1..Len(cells[6]) : cells[6][j] \in Digits \cup {",", "."}

QualifyingRows(rows) == {i \in 1..Len(rows) : Qualifies(rows[i])}

First(S) == CHOOSE i \in S : \A j \in S : i <= j

\* C18: only the first table is examined; the result is the cleaned cell 5
\* of the first row, in document order, that qualifies; an AUD row whose
\* cleaned cell 5 is empty is passed over; the fetch fails only when no row
\* of the first table qualifies.
C18_FirstQualifyingRow ==
    PageFetched =>
        LET rows == request.tables[1]
            q == QualifyingRows(rows)
        IN  IF q = {}
            THEN ~result.success
            ELSE /\ result.success
                 /\ result.rate = CleanRate(Strip(rows[First(q)][6]))

\* An AUD row whose cell 5 cleans to nothing is followed by an AUD row with
\* a rate, and the fetch returned that rate.
C18_Witness ==
    /\ PageFetched
    /\ Len(request.tables[1]) >= 2
    /\ request.tables[1][1] = FullRow(AUD, Txt_dash)
    /\ request.tables[1][2] = FullRow(Txt_aud, Txt_rate_vnd)
    /\ result.success
    /\ result.rate = Txt_rate

\* A step in which the daily job fires.
Fires ==
    /\ phase = "serving"
    /\ phase' = "serving"
    /\ bpc \in {"idle", "done"}
    /\ jobVars' # jobVars

\* C13 as stated: a job that fires on an empty set makes no fetch and no
\* send, and reports the tally of 0 succeeded and 0 failed.
C13_Step_Original ==
    (Fires /\ subscribed_users = {}) =>
        /\ bpc' = "done"
        /\ fetches' = 0
        /\ sent' = {}
        /\ faulted' = {}
        /\ blog' = "tally"
        /\ success_count' = 0
        /\ failed_count' = 0

C13_Original == [][C13_Step_Original]_vars

\* C13: a job that fires on an empty set makes no fetch and no send, logs
\* the line "No subscribed users for daily rate update" and returns; no
\* tally is logged for that run.
C13_Step ==
    (Fires /\ subscribed_users = {}) =>
        /\ bpc' = "done"
        /\ fetches' = 0
        /\ sent' = {}
        /\ faulted' = {}
        /\ message' = NoMessage
        /\ blog' = "no_subscribers"
        /\ UNCHANGED <<subscribed_users, file>>

C13_EmptySetExit == [][C13_Step]_vars

\* The last subscriber has just left, the job fired on the empty set and
\* took the early exit.
C13_Witness ==
    /\ phase = "serving"
    /\ bpc = "done"
    /\ blog = "no_subscribers"
    /\ subscribed_users = {}
    /\ handler.cmd = "unsubscribe"
    /\ handler.reply = "unsubscribed"
    /\ fetches = 0
    /\ sent = {}

\* C14: when the reply of a handler raises, before or after the handler
\* changed the set, error_handler logs it and the process goes on serving:
\* the dispatcher is idle again, the set, the file and the daily job are as
\* the handler left them, and the commands that follow act on that set.
C14_Step ==
    /\ phase = "serving" => phase' \in {"serving", "boot"}
    /\ (handler.cmd # "idle" /\ handler'.cmd = "idle" /\ handler' # Idle) =>
          /\ handler'.log = "error"
          /\ phase' = "serving"
          /\ UNCHANGED <<subscribed_users, file, lastSaved>>
          /\ UNCHANGED jobVars
    /\ (handler = IdleAfterError /\ handler'.cmd = "subscribe") =>
          /\ phase' = "serving"
          /\ subscribed_users' = subscribed_users \cup {handler'.user}
          /\ handler'.reply = IF handler'.user \in subscribed_users
                              THEN "already" ELSE "subscribed"
    /\ (handler = IdleAfterError /\ handler'.cmd = "unsubscribe") =>
          /\ phase' = "serving"
          /\ subscribed_users' = subscribed_users \ {handler'.user}
          /\ handler'.reply = IF handler'.user \in subscribed_users
                              THEN "unsubscribed" ELSE "not_subscribed"
    /\ (handler = IdleAfterError /\ Fires) =>
          /\ handler' = handler
          /\ bpc' = IF subscribed_users = {} THEN "done" ELSE "fetch"

C14_HandlerFaultNotFatal == [][C14_Step]_vars

\* A reply raised while a broadcast was under way: the error is logged, the
\* process serves, the set stands.
C14_Witness ==
    /\ phase = "serving"
    /\ handler = IdleAfterError
    /\ bpc = "send"
    /\ subscribed_users # {}
    /\ subscribed_users # snap

\* C17: whatever the interleaving of the handlers with each other's replies
\* and with the daily job at its awaits, the set in memory is the result of
\* applying the commands one after the other, in the order the dispatcher
\* took them, and once a handler has saved, no state in which another
\* handler or the job can run has the file behind the set.
C17_Serialized ==
    /\ subscribed_users = applied
    /\ (phase = "serving" /\ lastSaved.done) =>
          /\ lastSaved.set = applied
          /\ FileHolds(file, applied)

\* An unsubscribe ran while the delivery loop was suspended: the set differs
\* from the loop's copy, and the file holds the set.
C17_Witness ==
    /\ bpc = "sleep"
    /\ handler.cmd = "unsubscribe"
    /\ handler.reply = "unsubscribed"
    /\ handler.user \in snap
    /\ Cardinality(subscribed_users) >= 2
    /\ FileHolds(file, subscribed_users)

\* C19: the delivery loop copies the set when the fetch has returned: the
\* recipients are the members at that moment, whatever the set was when the
\* job fired; they do not change during the loop; and when the set is empty
\* by then, nothing is sent and the tally of 0 and 0 is logged.
C19_Step ==
    /\ (phase' = "serving" /\ bpc = "fetch" /\ bpc' # "fetch") =>
          /\ snap' = subscribed_users
          /\ IF subscribed_users = {}
             THEN /\ bpc' = "done"
                  /\ blog' = "tally"
                  /\ sent' = {}
                  /\ faulted' = {}
                  /\ success_count' = 0
                  /\ failed_count' = 0
             ELSE /\ bpc' = "send"
                  /\ cur' \in subscribed_users
    /\ (phase' = "serving" /\ bpc \in {"send", "sleep"}) => snap' = snap
    /\ bpc' = "send" => cur' \in snap'
    /\ (bpc' = "done" /\ blog' = "tally") => sent' \cup faulted' = snap'

C19_RecipientsAtLoopStart == [][C19_Step]_vars

\* The job fired on a non-empty set, every subscriber left during the fetch,
\* and the run ended with the tally of nothing.
C19_Witness ==
    /\ bpc = "done"
    /\ blog = "tally"
    /\ fetches = 1
    /\ snap = {}
    /\ success_count = 0
    /\ failed_count = 0

\* C20: a run of the job that passed the empty-set exit has made exactly
\* one fetch; its message is the rate or, when the fetch failed, the error
\* notice with the reason the fetch returned; every member of the copy is
\* sent that message once, and the tally counts those sends, whether the
\* fetch succeeded or not.
C20_FetchThenDeliver ==
    /\ bpc \in {"fetch", "send", "sleep"} => fetches = 1
    /\ bpc = "done" => fetches = (IF blog = "tally" THEN 1 ELSE 0)
    /\ (bpc \in {"send", "sleep"} \/ (bpc = "done" /\ blog = "tally")) =>
          /\ message.kind \in {"rate", "error"}
          /\ message.kind = "error" =>
                \E res \in JobResults :
                    /\ ~res.success
                    /\ res.error # <<"", "">>
                    /\ message.body = res.error
          /\ message.kind = "rate" =>
                \E res \in JobResults : res.success /\ message.body = <<res.rate>>
    /\ bpc = "send" => cur \in snap \ (sent \cup faulted)
    /\ (bpc = "done" /\ blog = "tally") =>
          /\ sent \cup faulted = snap
          /\ sent \cap faulted = {}
          /\ success_count = Cardinality(sent)
          /\ failed_count = Cardinality(faulted)

\* The fetch failed and the error notice went to every subscriber: some
\* sends returned, one raised, all are in the tally.
C20_Witness ==
    /\ bpc = "done"
    /\ blog = "tally"
    /\ fetches = 1
    /\ message.kind = "error"
    /\ message.body = <<"Request timeout. Please try again later.", "">>
    /\ success_count = 2
    /\ failed_count = 1

\* C21: once a save has completed, whatever save fails afterwards (at the
\* open, or part-way through the write), subscribers.json still holds the
\* set of the last completed save, and a load_subscribers that reads it
\* (a restart right then) yields that set.
C21_FailedSaveKeepsFile ==
    lastSaved.done =>
        /\ FileHolds(file, lastSaved.set)
        /\ LoadEnds({}, file, "ok") = [raised |-> FALSE, set |-> lastSaved.set]

\* A run of send_daily_rate is over: it took the empty-set exit, or it
\* logged the tally and every member of the copy was counted once.
Completed ==
    /\ bpc = "done"
    /\ \/ blog = "no_subscribers"
       \/ /\ blog = "tally"
          /\ success_count + failed_count = Cardinality(snap)

\* C22: when the fetch returns and every send returns or raises, a run of
\* the daily job that has begun reaches its end, the empty-set exit or the
\* tally over the whole copy, whichever sends raise and whatever commands
\* are handled meanwhile.
C22_TriggerCompletes == (bpc # "idle") ~> Completed

\* A run ended with its tally after a send raised and another returned,
\* while a subscribe handled during the delivery changed the set.
C22_Witness ==
    /\ Completed
    /\ blog = "tally"
    /\ sent # {}
    /\ faulted # {}
    /\ handler.cmd = "subscribe"
    /\ handler.reply = "subscribed"
    /\ ~(handler.user \in snap)

\* C23: a step changes the set in memory or subscribers.json only when it is
\* the load at startup or the start of a subscribe or unsubscribe handler.
\* The start, help and rate handlers at each of their awaits, the fetch, and
\* every step of the daily job leave both as they are, and a recipient
\* whose send raised is still in the set.
C23_Step ==
    /\ (subscribed_users' # subscribed_users \/ file' # file) =>
          \/ phase = "boot" /\ phase' = "loaded"
          \/ Starts("subscribe")
          \/ Starts("unsubscribe")
    /\ (bpc = "send" /\ faulted' # faulted) =>
          (cur \in subscribed_users <=> cur \in subscribed_users')

C23_OnlyCommandsChangeStore == [][C23_Step]_vars

\* The rate handler answered with the error notice after a broadcast in
\* which a send raised: the recipient is still subscribed, the file is the
\* one found at startup.
C23_Witness ==
    /\ handler.cmd = "rate"
    /\ handler.reply = "rate_error"
    /\ bpc = "done"
    /\ blog = "tally"
    /\ faulted # {}
    /\ faulted \subseteq subscribed_users
    /\ file = EarlierRunFile

====
